---------------------------- MODULE Spec2Model ----------------------------
(***************************************************************************)
(* A model of the iso8601 duration library (src/iso8601.go): the parser     *)
(* ParseISO8601, the formatter Duration.String, the calendar shifter       *)
(* Shift / Unshift, the component-wise arithmetic, the comparisons, the   *)
(* JSON methods and the time.Duration bridge.                              *)
(*                                                                         *)
(* Representation choices.                                                 *)
(*  - A Go string is a sequence of one-character strings.                  *)
(*  - The host int is two's complement of IntBits bits (a scaled-down      *)
(*    width: the arithmetic of the fields wraps, strconv.Atoi fails above  *)
(*    MaxInt).                                                             *)
(*  - A float64 seconds value is held as the decimal it prints as: a sign, *)
(*    the shortest digit string m (no trailing zero) and a power of ten e, *)
(*    value = m * 10^e.  For numerals of at most 15 significant digits     *)
(*    this is what strconv.ParseFloat followed by the shortest formatting  *)
(*    of strconv yields.  ParseFloat's range error is scaled down to       *)
(*    MaxFloatDigits integer digits.  Where timeDuration multiplies TS by  *)
(*    a second, the product is rounded to a binary float of FloatBits      *)
(*    significant bits (the real width is 53), ties to even.               *)
(*  - A time.Duration is a count of ticks, 10^TickDigits ticks a second    *)
(*    (the real resolution is 10^9), two's complement of DurationBits      *)
(*    bits (the real width is 64): wider than the int, as on a host whose  *)
(*    int has 32 bits.                                                     *)
(***************************************************************************)
EXTENDS Integers, Sequences, FiniteSets, TLC

(***************************************************************************)
(* Bounds of the model.                                                    *)
(***************************************************************************)
IntBits == 8
MaxFloatDigits == 8
TickDigits == 2
DurationBits == 26
FloatBits == 20
MaxLen == 3

(***************************************************************************)
(* The host integer.                                                       *)
(***************************************************************************)
RECURSIVE Pow(_, _)
Pow(b, n) == IF n = 0 THEN 1 ELSE b * Pow(b, n - 1)

MaxInt == Pow(2, IntBits - 1) - 1
MinInt == -MaxInt - 1

\* Two's complement wrap-around of the host int.
Wrap(x) == ((x - MinInt) % Pow(2, IntBits)) + MinInt

(***************************************************************************)
(* Characters and numerals.                                                *)
(***************************************************************************)
DigitSeq == <<"0", "1", "2", "3", "4", "5", "6", "7", "8", "9">>
DigitChars == {DigitSeq[i] : i \in 1..10}

DigitVal(c) == (CHOOSE i \in 1..10 : DigitSeq[i] = c) - 1

IsDigit(c) == c \in DigitChars

\* strconv.Itoa of a non-negative integer.
RECURSIVE NatDigits(_)
NatDigits(n) == IF n < 10 THEN <<DigitSeq[n + 1]>>
                ELSE NatDigits(n \div 10) \o <<DigitSeq[(n % 10) + 1]>>

\* %d of an int: a minus sign and the magnitude.
Itoa(n) == IF n < 0 THEN <<"-">> \o NatDigits(-n) ELSE NatDigits(n)

\* The value of a digit string, or -1 once it exceeds limit.
RECURSIVE DigitsValue(_, _, _)
DigitsValue(s, acc, limit) ==
    IF s = <<>> THEN acc
    ELSE LET v == acc * 10 + DigitVal(Head(s))
         IN  IF v > limit THEN -1 ELSE DigitsValue(Tail(s), v, limit)

\* strconv.Atoi on a string of digits: the value, or a range error.
Atoi(part) ==
    LET v == DigitsValue(part, 0, MaxInt)
    IN  IF v < 0 THEN [err |-> "range", val |-> MaxInt]
        ELSE [err |-> "none", val |-> v]

(***************************************************************************)
(* float64 seconds as a decimal: [neg, m, e], value (-1)^neg * m * 10^e.   *)
(***************************************************************************)
FZero == [neg |-> FALSE, m |-> 0, e |-> 0]

RECURSIVE FNorm(_, _)
FNorm(m, e) == IF m = 0 THEN [m |-> 0, e |-> 0]
               ELSE IF m % 10 = 0 THEN FNorm(m \div 10, e + 1)
               ELSE [m |-> m, e |-> e]

MkFloat(neg, m, e) ==
    LET n == FNorm(m, e) IN [neg |-> neg, m |-> n.m, e |-> n.e]

FIsZero(f) == f.m = 0

\* -0.0 compares equal to 0.0.
\* NaN, which a Duration literal can hold, is not equal to itself.
NaN == [neg |-> FALSE, m |-> -1, e |-> 0]
FIsNaN(f) == f.m < 0

FEq(f, g) == /\ ~FIsNaN(f) /\ ~FIsNaN(g)
             /\ \/ (f.m = 0 /\ g.m = 0)
                \/ (f.neg = g.neg /\ f.m = g.m /\ f.e = g.e)

FIsNeg(f) == f.neg /\ f.m # 0

FNeg(f) == [f EXCEPT !.neg = ~f.neg]

RECURSIVE StripZeros(_)
StripZeros(s) == IF s # <<>> /\ Head(s) = "0" THEN StripZeros(Tail(s)) ELSE s

IndexOfDot(s) == IF \E i \in 1..Len(s) : s[i] = "."
                 THEN CHOOSE i \in 1..Len(s) : s[i] = "."
                 ELSE 0

\* strconv.ParseFloat(part, 64) on digits ["." digits]: a range error when
\* the value is beyond the largest float, the decimal value otherwise.
ParseFloat(part) ==
    LET dot == IndexOfDot(part)
        ip  == IF dot = 0 THEN part ELSE SubSeq(part, 1, dot - 1)
        fp  == IF dot = 0 THEN <<>> ELSE SubSeq(part, dot + 1, Len(part))
    IN  IF Len(StripZeros(ip)) > MaxFloatDigits
        THEN [err |-> "range", val |-> FZero]
        ELSE [err |-> "none",
              val |-> MkFloat(FALSE,
                              DigitsValue(StripZeros(ip \o fp), 0, 200000000),
                              -Len(fp))]

(***************************************************************************)
(* The Duration value.                                                     *)
(***************************************************************************)
ZeroDuration ==
    [Y |-> 0, M |-> 0, W |-> 0, D |-> 0, TH |-> 0, TM |-> 0, TS |-> FZero]

(***************************************************************************)
(* The pattern.  Each optional group "digits unit" either matches at the   *)
(* current position or is skipped; the letters of the groups differ, so    *)
(* the leftmost-first match of the regexp engine is this left-to-right     *)
(* scan.  A group that did not take part in the match has the empty        *)
(* string as its submatch.                                                 *)
(***************************************************************************)
CharAt(s, i) == IF i >= 1 /\ i <= Len(s) THEN s[i] ELSE ""

\* The position after the run of digits that starts at i (i itself when
\* there is none): \d+ is greedy.
RECURSIVE DigitsEnd(_, _)
DigitsEnd(s, i) == IF IsDigit(CharAt(s, i)) THEN DigitsEnd(s, i + 1) ELSE i

\* IntGroup with \d* for \d+: a unit letter with no digits is taken.
IntGroupNoDigits(s, i, unit) ==
    LET j == DigitsEnd(s, i)
    IN  IF CharAt(s, j) = unit
        THEN [part |-> SubSeq(s, i, j - 1), next |-> j + 1]
        ELSE [part |-> <<>>, next |-> i]

\* ((?P<name>\d+)unit)? at position i.
IntGroup(s, i, unit) ==
    LET j == DigitsEnd(s, i)
    IN  IF j > i /\ CharAt(s, j) = unit
        THEN [part |-> SubSeq(s, i, j - 1), next |-> j + 1]
        ELSE [part |-> <<>>, next |-> i]

\* ((?P<second>\d+(?:\.\d+)?)S)? at position i.
SecondGroup(s, i) ==
    LET j == DigitsEnd(s, i)
        k == IF j > i /\ CharAt(s, j) = "." /\ DigitsEnd(s, j + 1) > j + 1
             THEN DigitsEnd(s, j + 1) ELSE j
    IN  IF j > i /\ CharAt(s, k) = "S"
        THEN [part |-> SubSeq(s, i, k - 1), next |-> k + 1]
        ELSE [part |-> <<>>, next |-> i]

NoMatch == [ok |-> FALSE, year |-> <<>>, month |-> <<>>, week |-> <<>>,
            day |-> <<>>, hour |-> <<>>, minute |-> <<>>, second |-> <<>>]

\* pattern.FindStringSubmatch(from): the named submatches, ok iff the whole
\* string matches.
FindStringSubmatch(from) ==
    LET p0 == IF CharAt(from, 1) = "-" THEN 2 ELSE 1
        gy == IntGroup(from, p0 + 1, "Y")
        gm == IntGroup(from, gy.next, "M")
        gw == IntGroup(from, gm.next, "W")
        gd == IntGroup(from, gw.next, "D")
        t  == CharAt(from, gd.next) = "T"
        gh == IntGroup(from, gd.next + 1, "H")
        gn == IntGroup(from, gh.next, "M")
        gs == SecondGroup(from, gn.next)
        end == IF t THEN gs.next ELSE gd.next
    IN  IF CharAt(from, p0) = "P" /\ end = Len(from) + 1
        THEN [ok |-> TRUE, year |-> gy.part, month |-> gm.part,
              week |-> gw.part, day |-> gd.part,
              hour |-> IF t THEN gh.part ELSE <<>>,
              minute |-> IF t THEN gn.part ELSE <<>>,
              second |-> IF t THEN gs.part ELSE <<>>]
        ELSE NoMatch

MatchString(from) == FindStringSubmatch(from).ok

(***************************************************************************)
(* ParseISO8601.  The loop over pattern.SubexpNames() visits year, month,  *)
(* week, day, hour, minute, second in that order; a conversion error       *)
(* returns the Duration as filled in so far.                               *)
(***************************************************************************)
SubexpNames == <<"year", "month", "week", "day", "hour", "minute", "second">>

\* FieldOf with the two M groups exchanged.
FieldOfSwapped(name) ==
    CASE name = "year" -> "Y"
      [] name = "month" -> "TM"
      [] name = "week" -> "W"
      [] name = "day" -> "D"
      [] name = "hour" -> "TH"
      [] name = "minute" -> "M"
      [] name = "second" -> "TS"

\* The field a named group is stored in.
FieldOf(name) ==
    CASE name = "year" -> "Y"
      [] name = "month" -> "M"
      [] name = "week" -> "W"
      [] name = "day" -> "D"
      [] name = "hour" -> "TH"
      [] name = "minute" -> "TM"
      [] name = "second" -> "TS"

\* One iteration of the loop on group i, from the result so far.
ParseStep(match, negative, i, acc) ==
    LET name == SubexpNames[i]
        part == match[name]
    IN  IF part = <<>> THEN acc
        ELSE IF name = "second"
        THEN LET r == ParseFloat(part)
             IN  IF r.err # "none" THEN [acc EXCEPT !.err = r.err]
                 ELSE [acc EXCEPT !.d.TS =
                          IF negative THEN FNeg(r.val) ELSE r.val]
        ELSE LET r == Atoi(part)
             IN  IF r.err # "none" THEN [acc EXCEPT !.err = r.err]
                 ELSE [acc EXCEPT !.d[FieldOf(name)] =
                          IF negative THEN -r.val ELSE r.val]

RECURSIVE ParseLoop(_, _, _, _)
ParseLoop(match, negative, i, acc) ==
    IF i > Len(SubexpNames) \/ acc.err # "none" THEN acc
    ELSE ParseLoop(match, negative, i + 1, ParseStep(match, negative, i, acc))

\* ParseISO8601(from): [d, err], err one of "none", "syntax", "range".
ParseISO8601(from) ==
    IF ~MatchString(from)
    THEN [d |-> ZeroDuration, err |-> "syntax"]
    ELSE ParseLoop(FindStringSubmatch(from),
                   from # <<>> /\ from[1] = "-",
                   1,
                   [d |-> ZeroDuration, err |-> "none"])

(***************************************************************************)
(* Predicates and negation of a Duration.                                  *)
(***************************************************************************)
IsZero(d) == d.Y = 0 /\ d.M = 0 /\ d.W = 0 /\ d.D = 0 /\ d.TH = 0
             /\ d.TM = 0 /\ FIsZero(d.TS)

IsNegative(d) == d.Y < 0 \/ d.M < 0 \/ d.W < 0 \/ d.D < 0 \/ d.TH < 0
                 \/ d.TM < 0 \/ FIsNeg(d.TS)

HasTimePart(d) == d.TH # 0 \/ d.TM # 0 \/ ~FIsZero(d.TS)

Negate(d) == [Y |-> Wrap(-d.Y), M |-> Wrap(-d.M), W |-> Wrap(-d.W),
              D |-> Wrap(-d.D), TH |-> Wrap(-d.TH), TM |-> Wrap(-d.TM),
              TS |-> FNeg(d.TS)]

Equal(d, other) == d.Y = other.Y /\ d.M = other.M /\ d.W = other.W
                   /\ d.D = other.D /\ d.TH = other.TH /\ d.TM = other.TM
                   /\ FEq(d.TS, other.TS)

\* f < g on float64: false when either is NaN.
FLess(f, g) ==
    LET e == IF f.e < g.e THEN f.e ELSE g.e
    IN  /\ ~FIsNaN(f) /\ ~FIsNaN(g)
        /\ (IF f.neg THEN -f.m ELSE f.m) * Pow(10, f.e - e)
              < (IF g.neg THEN -g.m ELSE g.m) * Pow(10, g.e - e)

\* LessThan without the comparison of the date fields.
LessThanTimeOnly(d, other) ==
    IF d.TH # other.TH THEN d.TH < other.TH
    ELSE IF d.TM # other.TM THEN d.TM < other.TM
    ELSE FLess(d.TS, other.TS)

\* Duration.LessThan
LessThan(d, other) ==
    IF /\ \/ d.Y # 0 \/ d.M # 0 \/ d.W # 0 \/ d.D # 0
          \/ other.Y # 0 \/ other.M # 0 \/ other.W # 0 \/ other.D # 0
       /\ \/ d.Y # other.Y \/ d.M # other.M
          \/ d.W # other.W \/ d.D # other.D
    THEN IF d.Y # other.Y THEN d.Y < other.Y
         ELSE IF d.M # other.M THEN d.M < other.M
         ELSE IF d.W # other.W THEN d.W < other.W
         ELSE d.D < other.D
    ELSE IF d.TH # other.TH THEN d.TH < other.TH
    ELSE IF d.TM # other.TM THEN d.TM < other.TM
    ELSE FLess(d.TS, other.TS)

\* Duration.GreaterThan
GreaterThan(d, other) == LessThan(other, d)

(***************************************************************************)
(* Component-wise arithmetic.  The sum of two seconds values is the exact  *)
(* decimal sum (the rounding of the float64 sum is not modelled; the       *)
(* values the model adds are halves and whole numbers, which float64 adds  *)
(* exactly).                                                               *)
(***************************************************************************)
FSigned(f) == IF f.neg THEN -f.m ELSE f.m

FMin(a, b) == IF a < b THEN a ELSE b

FAdd(f, g) ==
    LET e == FMin(f.e, g.e)
        v == FSigned(f) * Pow(10, f.e - e) + FSigned(g) * Pow(10, g.e - e)
    IN  MkFloat(v < 0, IF v < 0 THEN -v ELSE v, e)

FSub(f, g) == FAdd(f, FNeg(g))

\* Add that carries whole hours out of the minutes.
AddWithCarry(d, other) ==
    LET tm == Wrap(d.TM + other.TM)
        c  == IF tm >= 60 THEN 1 ELSE 0
    IN  [Y |-> Wrap(d.Y + other.Y), M |-> Wrap(d.M + other.M),
         W |-> Wrap(d.W + other.W), D |-> Wrap(d.D + other.D),
         TH |-> Wrap(d.TH + other.TH + c), TM |-> tm - 60 * c,
         TS |-> FAdd(d.TS, other.TS)]

\* d.TS * float64(n)
FMul(f, k) ==
    MkFloat((f.neg /\ k > 0) \/ (~f.neg /\ k < 0),
            f.m * (IF k < 0 THEN -k ELSE k), f.e)

Add(d, other) ==
    [Y |-> Wrap(d.Y + other.Y), M |-> Wrap(d.M + other.M),
     W |-> Wrap(d.W + other.W), D |-> Wrap(d.D + other.D),
     TH |-> Wrap(d.TH + other.TH), TM |-> Wrap(d.TM + other.TM),
     TS |-> FAdd(d.TS, other.TS)]

Subtract(d, other) ==
    [Y |-> Wrap(d.Y - other.Y), M |-> Wrap(d.M - other.M),
     W |-> Wrap(d.W - other.W), D |-> Wrap(d.D - other.D),
     TH |-> Wrap(d.TH - other.TH), TM |-> Wrap(d.TM - other.TM),
     TS |-> FSub(d.TS, other.TS)]

Multiply(d, k) ==
    [Y |-> Wrap(d.Y * k), M |-> Wrap(d.M * k), W |-> Wrap(d.W * k),
     D |-> Wrap(d.D * k), TH |-> Wrap(d.TH * k), TM |-> Wrap(d.TM * k),
     TS |-> FMul(d.TS, k)]

(***************************************************************************)
(* time.Time and time.Duration.  A time.Time is the instant [day, tod]     *)
(* (days since 1970-01-01 UTC and ticks into that day) and the name of its *)
(* location.  A location is its initial offset and its transitions in      *)
(* time order, as in the zone tables of package time.                      *)
(***************************************************************************)
Second == Pow(10, TickDigits)
Minute == 60 * Second
Hour == 60 * Minute
DayTicks == 24 * Hour

TruncDiv(a, b) == IF a >= 0 THEN a \div b ELSE -((-a) \div b)

IsLeap(y) == y % 4 = 0 /\ (y % 100 # 0 \/ y % 400 = 0)

DaysIn(y, m) == IF m = 2 THEN (IF IsLeap(y) THEN 29 ELSE 28)
                ELSE IF m \in {4, 6, 9, 11} THEN 30 ELSE 31

\* The day number of year y, month m (1..12), day d; d may lie outside the
\* month, as in time.Date, and counts on from its first day.
DaysFromCivil(y, m, d) ==
    LET yy  == IF m <= 2 THEN y - 1 ELSE y
        era == yy \div 400
        yoe == yy - era * 400
        mp  == IF m > 2 THEN m - 3 ELSE m + 9
        doy == (153 * mp + 2) \div 5 + d - 1
        doe == yoe * 365 + yoe \div 4 - yoe \div 100 + doy
    IN  era * 146097 + doe - 719468

\* t.Date(): the year, month and day of a day number.
Civil(z) ==
    LET zz  == z + 719468
        era == zz \div 146097
        doe == zz - era * 146097
        yoe == (doe - doe \div 1460 + doe \div 36524 - doe \div 146096) \div 365
        doy == doe - (365 * yoe + yoe \div 4 - yoe \div 100)
        mp  == (5 * doy + 2) \div 153
        d   == doy - (153 * mp + 2) \div 5 + 1
        m   == IF mp < 10 THEN mp + 3 ELSE mp - 9
    IN  [y |-> yoe + era * 400 + (IF m <= 2 THEN 1 ELSE 0), m |-> m, d |-> d]

Inst(day, tod) == [day |-> day, tod |-> tod]

\* An instant moved by a number of ticks.
InstAdd(i, ticks) ==
    LET total == i.tod + ticks
    IN  Inst(i.day + total \div DayTicks, total % DayTicks)

InstBefore(a, b) == a.day < b.day \/ (a.day = b.day /\ a.tod < b.tod)

UTCLoc == [init |-> 0, trans |-> <<>>]

\* America/New_York, 2018 and 2019: EST until the second Sunday of March
\* 07:00 UTC, EDT until the first Sunday of November 06:00 UTC.
NewYork ==
    [init |-> -5 * Hour,
     trans |-> <<[at |-> Inst(DaysFromCivil(2018, 3, 11), 7 * Hour),
                  off |-> -4 * Hour],
                 [at |-> Inst(DaysFromCivil(2018, 11, 4), 6 * Hour),
                  off |-> -5 * Hour],
                 [at |-> Inst(DaysFromCivil(2019, 3, 10), 7 * Hour),
                  off |-> -4 * Hour],
                 [at |-> Inst(DaysFromCivil(2019, 11, 3), 6 * Hour),
                  off |-> -5 * Hour]>>]

Zone(name) == IF name = "America/New_York" THEN NewYork ELSE UTCLoc

Beginning == Inst(-1000000, 0)
Forever == Inst(1000000, 0)

\* Location.lookup: the offset in use at an instant and the span of
\* instants [start, end) it is in use for.
Lookup(loc, i) ==
    LET k == Cardinality({j \in 1..Len(loc.trans) :
                             ~InstBefore(i, loc.trans[j].at)})
    IN  [off   |-> IF k = 0 THEN loc.init ELSE loc.trans[k].off,
         start |-> IF k = 0 THEN Beginning ELSE loc.trans[k].at,
         end   |-> IF k = Len(loc.trans) THEN Forever
                   ELSE loc.trans[k + 1].at]

\* The wall clock of a time.Time, as an instant of its own.
Local(t) == InstAdd(Inst(t.day, t.tod), Lookup(Zone(t.loc), Inst(t.day, t.tod)).off)

\* t.Hour()
HourOf(t) == Local(t).tod \div Hour

\* time.Date: the time.Time whose wall clock in loc is the instant wall.
\* The offset is looked up at the wall clock taken as UTC and, when the
\* resulting instant lies outside that offset's span, at the instant.
DateIn(wall, locName) ==
    LET loc   == Zone(locName)
        first == Lookup(loc, wall)
        utc   == InstAdd(wall, -first.off)
        off   == IF first.off = 0 THEN 0
                 ELSE IF InstBefore(utc, first.start)
                         \/ ~InstBefore(utc, first.end)
                      THEN Lookup(loc, utc).off
                      ELSE first.off
        at    == InstAdd(wall, -off)
    IN  [day |-> at.day, tod |-> at.tod, loc |-> locName]

\* t.Add(d)
TimeAdd(t, ticks) ==
    LET at == InstAdd(Inst(t.day, t.tod), ticks)
    IN  [day |-> at.day, tod |-> at.tod, loc |-> t.loc]

\* AddDate as elapsed time: 24 hours for each day, years and months
\* dropped.
AddDateFlat(t, years, months, days) == TimeAdd(t, days * DayTicks)

\* t.AddDate(years, months, days): Date(year+years, month+months, day+days)
\* with the clock of t, normalised by time.Date.
AddDate(t, years, months, days) ==
    LET wall == Local(t)
        c    == Civil(wall.day)
        m0   == c.m - 1 + months
        y    == c.y + years + m0 \div 12
        m    == (m0 % 12) + 1
    IN  DateIn(Inst(DaysFromCivil(y, m, 1) + c.d + days - 1, wall.tod), t.loc)

\* n / d rounded to the nearest integer, ties to even.
RoundHalfEven(n, d) ==
    LET q == n \div d
        r == n % d
    IN  IF 2 * r < d THEN q
        ELSE IF 2 * r > d THEN q + 1
        ELSE IF q % 2 = 0 THEN q ELSE q + 1

\* The binary float nearest to n / d * 2^ex (n, d > 0): [mant, ex] of
\* value mant * 2^ex with FloatBits significant bits.  The fraction is
\* scaled by powers of two, cancelling where it can, until its quotient
\* has FloatBits bits.
RECURSIVE RoundBin(_, _, _)
RoundBin(n, d, ex) ==
    IF n \div d >= Pow(2, FloatBits)
    THEN IF n % 2 = 0 THEN RoundBin(n \div 2, d, ex + 1)
         ELSE RoundBin(n, d * 2, ex + 1)
    ELSE IF n \div d < Pow(2, FloatBits - 1)
    THEN IF d % 2 = 0 THEN RoundBin(n, d \div 2, ex - 1)
         ELSE RoundBin(n * 2, d, ex - 1)
    ELSE LET mant == RoundHalfEven(n, d)
         IN  IF mant = Pow(2, FloatBits)
             THEN [mant |-> Pow(2, FloatBits - 1), ex |-> ex + 1]
             ELSE [mant |-> mant, ex |-> ex]

\* The binary float a decimal denotes; the float product x * y.
BinOf(m, e) ==
    RoundBin(m * Pow(10, IF e > 0 THEN e ELSE 0),
             Pow(10, IF e < 0 THEN -e ELSE 0), 0)
BinTimes(x, y) ==
    RoundBin(x.mant * y * Pow(2, IF x.ex > 0 THEN x.ex ELSE 0),
             Pow(2, IF x.ex < 0 THEN -x.ex ELSE 0), 0)
BinTrunc(x) ==
    IF x.ex >= 0 THEN x.mant * Pow(2, x.ex) ELSE x.mant \div Pow(2, -x.ex)

\* time.Duration(d.TS * float64(time.Second)): the float product, then
\* the conversion to int64, which truncates.
SecondsToTicks(f) ==
    LET mag == IF f.m = 0 THEN 0
               ELSE BinTrunc(BinTimes(BinOf(f.m, f.e), Second))
    IN  IF f.neg THEN -mag ELSE mag

\* The arithmetic of time.Duration (an int64) wraps.
WrapDuration(x) ==
    ((x + Pow(2, DurationBits - 1)) % Pow(2, DurationBits))
        - Pow(2, DurationBits - 1)

\* Duration.timeDuration
TimeDuration(d) ==
    WrapDuration(d.TH * Hour + d.TM * Minute + SecondsToTicks(d.TS))

\* Shift that leaves the weeks out of the day count.
ShiftDaysOnly(d, t) ==
    LET t1 == IF d.Y # 0 \/ d.M # 0 \/ d.W # 0 \/ d.D # 0
              THEN AddDate(t, d.Y, d.M, d.D)
              ELSE t
    IN  TimeAdd(t1, TimeDuration(d))

\* Duration.Shift
Shift(d, t) ==
    LET t1 == IF d.Y # 0 \/ d.M # 0 \/ d.W # 0 \/ d.D # 0
              THEN AddDate(t, d.Y, d.M, Wrap(d.W * 7 + d.D))
              ELSE t
    IN  TimeAdd(t1, TimeDuration(d))

\* Unshift that adds the elapsed time instead of subtracting it.
UnshiftTimeForward(d, t) ==
    LET t1 == IF d.Y # 0 \/ d.M # 0 \/ d.W # 0 \/ d.D # 0
              THEN AddDate(t, Wrap(-d.Y), Wrap(-d.M),
                           Wrap(-Wrap(d.W * 7 + d.D)))
              ELSE t
    IN  TimeAdd(t1, TimeDuration(d))

\* Duration.Unshift
Unshift(d, t) ==
    LET t1 == IF d.Y # 0 \/ d.M # 0 \/ d.W # 0 \/ d.D # 0
              THEN AddDate(t, Wrap(-d.Y), Wrap(-d.M),
                           Wrap(-Wrap(d.W * 7 + d.D)))
              ELSE t
    IN  TimeAdd(t1, WrapDuration(-TimeDuration(d)))

\* ToTimeDuration that counts a day as 24 hours.
ToTimeDurationWithDays(d) ==
    WrapDuration(d.D * 24 * Hour + d.TH * Hour + d.TM * Minute
                 + SecondsToTicks(d.TS))

\* Duration.ToTimeDuration
ToTimeDuration(d) == TimeDuration(d)

\* FromTimeDuration without the split into minutes.
FromTimeDurationNoMinutes(e) ==
    LET hours == TruncDiv(e, Hour)
        r1    == e - hours * Hour
    IN  [ZeroDuration EXCEPT
            !.TH = Wrap(hours),
            !.TS = MkFloat(r1 < 0, IF r1 < 0 THEN -r1 ELSE r1, -TickDigits)]

\* FromTimeDuration with the floor of each quotient.
FromTimeDurationFloor(e) ==
    LET hours   == e \div Hour
        r1      == e - hours * Hour
        minutes == r1 \div Minute
        r2      == r1 - minutes * Minute
    IN  [ZeroDuration EXCEPT
            !.TH = Wrap(hours), !.TM = Wrap(minutes),
            !.TS = MkFloat(FALSE, r2, -TickDigits)]

\* FromTimeDuration: Go's integer division truncates towards zero.
FromTimeDuration(e) ==
    LET hours   == TruncDiv(e, Hour)
        r1      == e - hours * Hour
        minutes == TruncDiv(r1, Minute)
        r2      == r1 - minutes * Minute
    IN  [ZeroDuration EXCEPT
            !.TH = Wrap(hours), !.TM = Wrap(minutes),
            !.TS = MkFloat(r2 < 0, IF r2 < 0 THEN -r2 ELSE r2, -TickDigits)]

(***************************************************************************)
(* The formatter: the template tmpl and its helper functions.              *)
(***************************************************************************)
\* The template function abs: -n wraps for the least int.
Abs(n) == IF n < 0 THEN Wrap(-n) ELSE n

\* The template function absFloat.
AbsFloat(f) == IF FIsNeg(f) THEN FNeg(f) ELSE f

Zeros(n) == [i \in 1..n |-> "0"]

\* fmt.Sprintf("%.0f", ts) of an integral value: every digit, no exponent.
FmtF0(f) == NatDigits(f.m) \o Zeros(f.e)

\* %e with the shortest digits: d[.ddd]e(+|-)XX, at least two exponent digits.
FmtE(digs, exp) ==
    LET mant == IF Len(digs) > 1
                THEN <<Head(digs), ".">> \o Tail(digs) ELSE digs
        ax   == IF exp < 0 THEN -exp ELSE exp
        ex   == IF ax < 10 THEN <<"0">> \o NatDigits(ax) ELSE NatDigits(ax)
    IN  mant \o <<"e", IF exp < 0 THEN "-" ELSE "+">> \o ex

\* %f with the shortest digits, decimal point after dp digits.
FmtF(digs, dp) ==
    LET nd   == Len(digs)
        ip   == IF dp > 0
                THEN [i \in 1..dp |-> IF i <= nd THEN digs[i] ELSE "0"]
                ELSE <<"0">>
        prec == IF nd - dp > 0 THEN nd - dp ELSE 0
        fr   == [i \in 1..prec |->
                    IF dp + i >= 1 /\ dp + i <= nd THEN digs[dp + i] ELSE "0"]
    IN  IF prec > 0 THEN ip \o <<".">> \o fr ELSE ip

\* fmt.Sprintf("%g", ts): the shortest digits that identify the value, in
\* %e form when the decimal exponent is below -4 or at least 6, in %f form
\* otherwise.
FmtG(f) ==
    LET digs == NatDigits(f.m)
        dp   == Len(digs) + f.e
        exp  == dp - 1
    IN  IF exp < -4 \/ exp >= 6 THEN FmtE(digs, exp) ELSE FmtF(digs, dp)

\* The template function formatSeconds, on a non-negative value.
FormatSeconds(ts) == IF ts.e >= 0 THEN FmtF0(ts) ELSE FmtG(ts)

\* html/template escapes a string value in text context: of the characters
\* formatSeconds can produce only '+' has a replacement.
RECURSIVE HTMLEscape(_)
HTMLEscape(s) ==
    IF s = <<>> THEN <<>>
    ELSE (IF Head(s) = "+" THEN <<"&", "#", "4", "3", ";">> ELSE <<Head(s)>>)
         \o HTMLEscape(Tail(s))

\* {{if .F}}{{abs .F}}unit{{end}}
IntPart(n, unit) == IF n # 0 THEN Itoa(Abs(n)) \o <<unit>> ELSE <<>>

\* tmpl.Execute
Tmpl(d) ==
    (IF IsNegative(d) THEN <<"-">> ELSE <<>>) \o <<"P">>
    \o IntPart(d.Y, "Y") \o IntPart(d.M, "M")
    \o IntPart(d.W, "W") \o IntPart(d.D, "D")
    \o (IF HasTimePart(d) THEN <<"T">> ELSE <<>>)
    \o IntPart(d.TH, "H") \o IntPart(d.TM, "M")
    \o (IF ~FIsZero(d.TS)
        THEN HTMLEscape(FormatSeconds(AbsFloat(d.TS))) \o <<"S">>
        ELSE <<>>)

\* String without the early return for the zero value.
StringNoZeroCase(d) == Tmpl(d)

\* Duration.String
String(d) == IF IsZero(d) THEN <<"P", "0", "D">> ELSE Tmpl(d)

(***************************************************************************)
(* The inputs of the parser.  A recipe is a literal put together group by  *)
(* group, each group with the value its numeral denotes; the free strings  *)
(* are all strings over Alphabet up to MaxLen characters; the rejected     *)
(* literals are those of TestCanRejectBadString and their like.            *)
(***************************************************************************)
Num(txt, val) == [txt |-> txt, val |-> val, fits |-> TRUE]
Absent == Num(<<>>, 0)

\* The least numeral strconv.Atoi rejects, and the largest it accepts.
OverInt == [txt |-> NatDigits(MaxInt + 1), val |-> 0, fits |-> FALSE]
TopInt == Num(NatDigits(MaxInt), MaxInt)

\* A seconds numeral beyond the float range.
OverFloat == [txt |-> <<"1">> \o Zeros(MaxFloatDigits), val |-> FZero,
              fits |-> FALSE]

Sec(txt, m, e) == Num(txt, [neg |-> FALSE, m |-> m, e |-> e])
AbsentSec == Sec(<<>>, 0, 0)

YNums == {Absent, Num(<<"1">>, 1)}
MoNums == {Absent, Num(<<"2">>, 2), Num(<<"1", "0">>, 10)}
WNums == {Absent, Num(<<"3">>, 3)}
DNums == {Absent, Num(<<"0">>, 0), Num(<<"0", "4">>, 4), TopInt, OverInt}
HNums == {Absent, Num(<<"5">>, 5)}
MiNums == {Absent, Num(<<"9", "0">>, 90)}
SNums == {AbsentSec,
          Sec(<<"7">>, 7, 0),
          Sec(<<"0">>, 0, 0),
          Sec(<<"3", "3", ".", "0">>, 33, 0),
          Sec(<<"0", ".", "5">>, 5, -1),
          Sec(<<"3", "3", ".", "3", "4", "4", "4">>, 333444, -4),
          Sec(<<"0", ".", "0", "0", "0", "1">>, 1, -4),
          Sec(<<"0", ".", "0", "0", "0", "0", "1">>, 1, -5),
          Sec(<<"1", "0", "0", "0", "0", "0", ".", "5">>, 1000005, -1),
          Sec(<<"1", "2", "3", "4", "5", "6", "7", ".", "5">>, 12345675, -1),
          OverFloat}

Recipes ==
    {[kind |-> "recipe", neg |-> neg, y |-> y, mo |-> mo, w |-> w, dd |-> dd,
      t |-> t, h |-> h, mi |-> mi, s |-> sc] :
        neg \in BOOLEAN, y \in YNums, mo \in MoNums, w \in WNums,
        dd \in DNums, t \in {TRUE}, h \in HNums, mi \in MiNums, sc \in SNums}
    \cup
    {[kind |-> "recipe", neg |-> neg, y |-> y, mo |-> mo, w |-> w, dd |-> dd,
      t |-> FALSE, h |-> Absent, mi |-> Absent, s |-> AbsentSec] :
        neg \in BOOLEAN, y \in YNums, mo \in MoNums, w \in WNums,
        dd \in DNums}

Group(n, unit) == IF n.txt = <<>> THEN <<>> ELSE n.txt \o <<unit>>

\* The literal of a recipe.
Render(r) ==
    (IF r.neg THEN <<"-">> ELSE <<>>) \o <<"P">>
    \o Group(r.y, "Y") \o Group(r.mo, "M") \o Group(r.w, "W")
    \o Group(r.dd, "D")
    \o (IF r.t THEN <<"T">> ELSE <<>>)
    \o Group(r.h, "H") \o Group(r.mi, "M") \o Group(r.s, "S")

Alphabet == {"-", "P", "T", "1", ".", "M", "S", "D", " ", "p"}

FreeStrings == {<<>>} \cup UNION {[1..k -> Alphabet] : k \in 1..MaxLen}

BadLiterals ==
    {<<"P", "P", "1", "D">>,
     <<"P", "1", "D", "2", "F">>,
     <<"P", "2", "F">>,
     <<"P", "1", "M", "1", "Y">>,
     <<"P", "T", "1", "S", "1", "M">>,
     <<"P", "1", ".", "5", "D">>,
     <<"P", "T", "1", ".", "5", "H">>,
     <<"P", "T", "1", ".", "S">>,
     <<"P", "1", "H">>,
     <<"P", "T", "1", "D">>,
     <<"P", "1", "D", "T", "1", "H", " ">>,
     <<" ", "P", "1", "D">>,
     <<"P", " ", "1", "D">>,
     <<"p", "1", "d">>,
     <<"P", "1", "d">>,
     <<"P", "1", "D", "-">>,
     <<"P", "-", "1", "D">>,
     <<"-", "-", "P", "1", "D">>,
     <<"1", "D">>,
     <<"P", "1">>}

Free == [kind |-> "free"]
Bad == [kind |-> "bad"]

(***************************************************************************)
(* State.                                                                  *)
(***************************************************************************)
VARIABLES
    pc,     \* the step of the run
    from,   \* the string handed to ParseISO8601
    built,  \* how from was put together (a recipe, Free or Bad)
    res,    \* what ParseISO8601(from) returned: [d, err]
    str,    \* what String() returned
    res2,   \* what ParseISO8601(str) returned
    dur,    \* the Duration a method is called on
    dur2,   \* the Duration FromTimeDuration returned
    nops,   \* the number of operations applied so far
    pt,     \* the time.Time a run starts from
    pt2,    \* the result of Shift
    pt3,    \* the result of Unshift
    td,     \* a time.Duration, in ticks
    td2,    \* the time.Duration ToTimeDuration returned
    dur3,   \* the Duration an operation returned
    js,     \* a JSON text
    err,    \* the error of the last call
    cmp,    \* the answers of the comparison methods
    factor  \* the int handed to Multiply

textVars == <<from, built, res, str, res2>>
timeVars == <<pt, pt2, pt3, td, dur2>>
moreVars == <<td2, dur3, js, err, cmp, factor>>
vars == <<pc, from, built, res, str, res2, dur, dur2, nops, pt, pt2, pt3, td,
          td2, dur3, js, err, cmp, factor>>

NoResult == [d |-> ZeroDuration, err |-> "unset"]

\* A time.Time in UTC, as time.Parse and time.Unix of the tests yield.
Point(day, tod) == [day |-> day, tod |-> tod, loc |-> "UTC"]
NoPoint == Point(0, 0)

\* The variables a specification does not use.
TextIdle == /\ from = <<>> /\ built = Free /\ res = NoResult
            /\ res2 = NoResult
NoAnswer == [lt |-> FALSE, ltRev |-> FALSE, gt |-> FALSE, eq |-> FALSE]
MoreIdle == /\ td2 = 0 /\ dur3 = ZeroDuration /\ js = <<>> /\ err = "none"
            /\ cmp = NoAnswer /\ factor = 0
TimeIdle == /\ pt = NoPoint /\ pt2 = NoPoint /\ pt3 = NoPoint /\ td = 0
            /\ dur2 = ZeroDuration

(***************************************************************************)
(* Parse, format, parse again.                                             *)
(***************************************************************************)
Init ==
    /\ pc = "start"
    /\ \/ \E r \in Recipes : from = Render(r) /\ built = r
       \/ \E s \in FreeStrings : from = s /\ built = Free
       \/ \E s \in BadLiterals : from = s /\ built = Bad
    /\ res = NoResult
    /\ str = <<>>
    /\ res2 = NoResult
    /\ dur = ZeroDuration /\ nops = 0
    /\ TimeIdle
    /\ MoreIdle

\* d, err := ParseISO8601(from)
Parse ==
    /\ pc = "start"
    /\ res' = ParseISO8601(from)
    /\ pc' = "parsed"
    /\ UNCHANGED <<moreVars, from, built, str, res2, dur, nops, timeVars>>

\* s := d.String()
Stringify ==
    /\ pc = "parsed"
    /\ str' = String(res.d)
    /\ pc' = "formatted"
    /\ UNCHANGED <<moreVars, from, built, res, res2, dur, nops, timeVars>>

\* d2, err2 := ParseISO8601(s)
Reparse ==
    /\ pc = "formatted"
    /\ res2' = ParseISO8601(str)
    /\ pc' = "reparsed"
    /\ UNCHANGED <<moreVars, from, built, res, str, dur, nops, timeVars>>

Next == Parse \/ Stringify \/ Reparse

Spec == Init /\ [][Next]_vars

(***************************************************************************)
(* The grammar of the specification, as the set of its strings of at most  *)
(* MaxLen characters over Alphabet:                                        *)
(*   ["-"] "P" [nY][nM][nW][nD] ["T" [nH][nM][n[.n]S]]                     *)
(***************************************************************************)
Numerals == UNION {[1..k -> Alphabet \cap DigitChars] : k \in 1..MaxLen}

SecNumerals == Numerals \cup {a \o <<".">> \o b : a \in Numerals, b \in Numerals}

Opt(S, unit) == {<<>>} \cup {n \o <<unit>> : n \in S}

Cat(A, B) == {s \in {a \o b : a \in A, b \in B} : Len(s) <= MaxLen}

TimePart == Cat(Opt(Numerals, "H"),
                Cat(Opt(Numerals, "M"), Opt(SecNumerals, "S")))

DatePart == Cat(Opt(Numerals, "Y"),
                Cat(Opt(Numerals, "M"),
                    Cat(Opt(Numerals, "W"), Opt(Numerals, "D"))))

GrammarUpTo ==
    Cat({<<>>, <<"-">>},
        Cat({<<"P">>},
            Cat(DatePart, {<<>>} \cup Cat({<<"T">>}, TimePart))))

\* The Duration a recipe denotes.
Expected(r) ==
    LET sg == IF r.neg THEN -1 ELSE 1
    IN  [Y |-> sg * r.y.val, M |-> sg * r.mo.val, W |-> sg * r.w.val,
         D |-> sg * r.dd.val, TH |-> sg * r.h.val, TM |-> sg * r.mi.val,
         TS |-> [r.s.val EXCEPT !.neg = r.neg]]

IntsFit(r) == r.y.fits /\ r.mo.fits /\ r.w.fits /\ r.dd.fits /\ r.h.fits
              /\ r.mi.fits

AnyPositive(d) == d.Y > 0 \/ d.M > 0 \/ d.W > 0 \/ d.D > 0 \/ d.TH > 0
                  \/ d.TM > 0 \/ (~d.TS.neg /\ d.TS.m # 0)

Parsed == pc # "start"

Accepted == Parsed /\ res.err = "none"

\* C1: for every accepted input each field is the numeral of its unit group
\* (months before T, minutes after), absent groups leave 0, every component
\* is negated iff the input starts with '-', so the non-zero fields share
\* one sign.
C1_FieldsOfGroups ==
    Accepted =>
        /\ built.kind = "recipe" => Equal(res.d, Expected(built))
        /\ ~(IsNegative(res.d) /\ AnyPositive(res.d))
        /\ IsNegative(res.d) => from[1] = "-"
        /\ AnyPositive(res.d) => from[1] # "-"

C1_Witness ==
    /\ pc = "parsed" /\ res.err = "none" /\ built.kind = "recipe"
    /\ built.neg /\ built.mo.val = 2 /\ built.mi.val = 90
    /\ res.d.M = -2 /\ res.d.TM = -90 /\ res.d.TS.neg /\ res.d.TS.m = 5

\* C2 as claimed: an error for every string outside the grammar, success
\* for every string of the grammar whose integer components fit the host
\* integer.
C2_GrammarDecides ==
    Parsed =>
        /\ built.kind = "bad" => res.err # "none"
        /\ built.kind = "free" => (res.err = "none" <=> from \in GrammarUpTo)
        /\ built.kind = "recipe" => (res.err = "none" <=> IntsFit(built))

\* C2 as amended: an error for every string outside the grammar, success
\* for every string of the grammar whose integer components fit the host
\* integer and whose seconds are within the range of the float.
C2_GrammarAndRange ==
    Parsed =>
        /\ built.kind = "bad" => res.err = "syntax"
        /\ built.kind = "free" =>
              /\ res.err = "none" <=> from \in GrammarUpTo
              /\ res.err # "none" => res.err = "syntax"
        /\ built.kind = "recipe" =>
              /\ res.err = "none" <=> (IntsFit(built) /\ built.s.fits)
              /\ res.err # "none" => res.err = "range"

C2_Witness ==
    /\ pc = "parsed" /\ built.kind = "recipe" /\ IntsFit(built)
    /\ ~built.s.fits /\ built.y.val = 1 /\ res.err = "range"

\* C3: whenever ParseISO8601 returns an error the Duration it returns has
\* all seven fields zero.
C3_AllOrNothing ==
    (Parsed /\ res.err # "none") => IsZero(res.d)

\* C4: for every accepted s, ParseISO8601(ParseISO8601(s).String()) succeeds
\* and is Equal to ParseISO8601(s).
C4_RoundTrip ==
    (pc = "reparsed" /\ res.err = "none") =>
        (res2.err = "none" /\ Equal(res2.d, res.d))

\* A numeral in canonical form: no leading zero, no trailing zero in the
\* fraction, and not the numeral of zero (which the formatter suppresses).
CanonicalInt(n) == n.txt = <<>> \/ (Head(n.txt) # "0" /\ n.val # 0)

CanonicalSec(n) ==
    \/ n.txt = <<>>
    \/ /\ n.val.m # 0
       /\ Head(n.txt) # "0" \/ (Len(n.txt) > 1 /\ n.txt[2] = ".")
       /\ IndexOfDot(n.txt) # 0 => n.txt[Len(n.txt)] # "0"

CanonicalLiteral(r) ==
    /\ CanonicalInt(r.y) /\ CanonicalInt(r.mo) /\ CanonicalInt(r.w)
    /\ CanonicalInt(r.dd) /\ CanonicalInt(r.h) /\ CanonicalInt(r.mi)
    /\ CanonicalSec(r.s)
    /\ Render(r) \notin {<<"P">>, <<"-", "P">>}
    /\ r.t <=> (r.h.txt # <<>> \/ r.mi.txt # <<>> \/ r.s.txt # <<>>)

\* C5: for every accepted literal in canonical form, with or without a
\* leading '-', String(ParseISO8601(s)) = s.
C5_CanonicalFixpoint ==
    (pc \in {"formatted", "reparsed"} /\ res.err = "none"
     /\ built.kind = "recipe" /\ CanonicalLiteral(built)) => str = from

(***************************************************************************)
(* Durations built by the caller: a literal Duration or a parsed one, then *)
(* up to MaxOps of Add, Subtract, Multiply and Negate, then String().      *)
(***************************************************************************)
MaxOps == 2

Dur(y, mo, w, dd, h, mi, sm, se) ==
    [Y |-> y, M |-> mo, W |-> w, D |-> dd, TH |-> h, TM |-> mi,
     TS |-> MkFloat(sm < 0, IF sm < 0 THEN -sm ELSE sm, se)]

\* Duration literals: those of the tests, one with fields of both signs,
\* one with the extreme ints.
Operands ==
    {ZeroDuration,
     Dur(0, 0, 0, 1, 0, 0, 0, 0),
     Dur(0, 0, 0, 2, 0, 0, 0, 0),
     Dur(0, 0, 0, 0, 1, 0, 0, 0),
     Dur(0, 0, 0, 0, 3, 45, 0, 0),
     Dur(0, 0, 0, 0, 2, 15, 0, 0),
     Dur(1, 2, 3, 4, 5, 6, 7, 0),
     Dur(0, 0, 0, 0, 0, 0, 5, -1),
     Dur(0, 0, 0, 0, 0, 90, -15, -1),
     Dur(0, 0, 0, 1, -1, 0, 0, 0),
     Dur(MinInt, 0, 0, MaxInt, 0, 0, 0, 0)}

ZeroLiterals == {<<"P", "0", "D">>, <<"P">>, <<"-", "P", "0", "D">>,
                 <<"-", "P", "T", "0", "S">>}

Factors == {-1, 0, 2}

InitArith ==
    /\ pc = "value"
    /\ \/ dur \in Operands
       \/ \E s \in ZeroLiterals : dur = ParseISO8601(s).d
    /\ nops = 0
    /\ str = <<>>
    /\ TextIdle
    /\ MoreIdle
    /\ TimeIdle

Building == pc = "value" /\ nops < MaxOps

DoAdd ==
    /\ Building
    /\ \E o \in Operands \cup {Negate(dur)} : dur' = Add(dur, o)
    /\ nops' = nops + 1
    /\ UNCHANGED <<moreVars, pc, textVars, timeVars>>

DoSubtract ==
    /\ Building
    /\ \E o \in Operands \cup {dur} : dur' = Subtract(dur, o)
    /\ nops' = nops + 1
    /\ UNCHANGED <<moreVars, pc, textVars, timeVars>>

DoMultiply ==
    /\ Building
    /\ \E k \in Factors : dur' = Multiply(dur, k)
    /\ nops' = nops + 1
    /\ UNCHANGED <<moreVars, pc, textVars, timeVars>>

DoNegate ==
    /\ Building
    /\ dur' = Negate(dur)
    /\ nops' = nops + 1
    /\ UNCHANGED <<moreVars, pc, textVars, timeVars>>

DoString ==
    /\ pc = "value"
    /\ str' = String(dur)
    /\ pc' = "shown"
    /\ UNCHANGED <<moreVars, from, built, res, res2, dur, nops, timeVars>>

NextArith == DoAdd \/ DoSubtract \/ DoMultiply \/ DoNegate \/ DoString

SpecArith == InitArith /\ [][NextArith]_vars

\* C6: String returns exactly "P0D" for every Duration whose seven fields
\* are all zero, however it was built, and never "P0D", "P", "-P" or the
\* empty string for a Duration with a non-zero field;
\* IsZero(ParseISO8601("P0D")) is true.
C6_ZeroIsP0D ==
    /\ IsZero(ParseISO8601(<<"P", "0", "D">>).d)
    /\ pc = "shown" =>
          /\ IsZero(dur) => str = <<"P", "0", "D">>
          /\ ~IsZero(dur) =>
                str \notin {<<"P", "0", "D">>, <<"P">>, <<"-", "P">>, <<>>}

C6_Witness ==
    /\ pc = "shown" /\ nops = MaxOps /\ IsZero(dur)
    /\ str = <<"P", "0", "D">>

(***************************************************************************)
(* Shift and Unshift on points in UTC.                                     *)
(***************************************************************************)
StartDays == {DaysFromCivil(2018, 1, 1), DaysFromCivil(2018, 1, 27),
              DaysFromCivil(2018, 1, 31), DaysFromCivil(2018, 8, 31),
              DaysFromCivil(2019, 2, 20), DaysFromCivil(2020, 2, 29)}

StartClocks == {0, Second + Second \div 2, 12 * Hour,
                DayTicks - Second \div 2}

\* The durations of TestCanShift, TestCanUnshift and
\* TestCanUnshiftFractionalSeconds, and durations that join a calendar
\* component with days or with a time component.
ShiftDurations ==
    LET pos == {Dur(1, 0, 0, 0, 0, 0, 0, 0),
                Dur(0, 1, 0, 0, 0, 0, 0, 0),
                Dur(0, 2, 0, 0, 0, 0, 0, 0),
                Dur(0, 0, 1, 0, 0, 0, 0, 0),
                Dur(0, 0, 0, 1, 0, 0, 0, 0),
                Dur(0, 0, 0, 0, 1, 0, 0, 0),
                Dur(0, 0, 0, 0, 0, 1, 0, 0),
                Dur(0, 0, 0, 0, 0, 0, 1, 0),
                Dur(0, 0, 0, 0, 0, 0, 5, -1),
                Dur(0, 0, 0, 0, 0, 0, 15, -1),
                Dur(10, 5, 0, 8, 5, 10, 6, 0),
                Dur(0, 0, 2, 3, 0, 0, 0, 0),
                Dur(0, 0, 1, -7, 0, 0, 0, 0),
                Dur(0, 1, 0, 20, 0, 0, 0, 0),
                Dur(0, 1, 0, 0, 72, 0, 0, 0),
                Dur(1, 0, 0, 0, 24, 0, 0, 0),
                Dur(0, 14, 0, 0, 0, 90, 0, 0),
                Dur(0, 0, 0, 1, -1, 0, 0, 0),
                Dur(0, 0, 20, 5, 0, 0, 0, 0),
                Dur(0, 0, 0, 0, MinInt, 0, 0, 0),
                Dur(0, 0, 0, 1, 0, MinInt, 0, 0)}
    IN  {ZeroDuration} \cup pos \cup {Negate(d) : d \in pos}

InitShift ==
    /\ pc = "start"
    /\ \E day \in StartDays, tod \in StartClocks : pt = Point(day, tod)
    /\ dur \in ShiftDurations
    /\ pt2 = NoPoint /\ pt3 = NoPoint /\ td = 0 /\ dur2 = ZeroDuration
    /\ nops = 0
    /\ str = <<>>
    /\ TextIdle
    /\ MoreIdle

\* q := d.Shift(p)
DoShift ==
    /\ pc = "start"
    /\ pt2' = Shift(dur, pt)
    /\ pc' = "shifted"
    /\ UNCHANGED <<moreVars, textVars, dur, dur2, nops, pt, pt3, td>>

\* r := d.Unshift(q)
DoUnshift ==
    /\ pc = "shifted"
    /\ pt3' = Unshift(dur, pt2)
    /\ pc' = "unshifted"
    /\ UNCHANGED <<moreVars, textVars, dur, dur2, nops, pt, pt2, td>>

\* r := d.Unshift(p)
DoUnshiftStart ==
    /\ pc = "start"
    /\ pt3' = Unshift(dur, pt)
    /\ pc' = "back"
    /\ UNCHANGED <<moreVars, textVars, dur, dur2, nops, pt, pt2, td>>

\* q := d.Negate().Shift(p)
DoShiftNegated ==
    /\ pc = "back"
    /\ pt2' = Shift(Negate(dur), pt)
    /\ pc' = "mirrored"
    /\ UNCHANGED <<moreVars, textVars, dur, dur2, nops, pt, pt3, td>>

NextShift == DoShift \/ DoUnshift \/ DoUnshiftStart \/ DoShiftNegated

SpecShift == InitShift /\ [][NextShift]_vars

\* The date-only step t.AddDate(years, months, days) lands on a day of the
\* month that exists in the month it lands in.
LandsInMonth(t, years, months, days) ==
    LET c  == Civil(t.day)
        m0 == c.m - 1 + months
    IN  /\ c.d + days >= 1
        /\ c.d + days <= DaysIn(c.y + years + m0 \div 12, (m0 % 12) + 1)

\* C7: Unshift(Shift(p, d), d) = p for every p in a fixed-offset zone and
\* every d neither of whose date-only steps rolls over a month end,
\* durations that join a month or year with a time component included.
C7_UnshiftInvertsShift ==
    (pc = "unshifted"
     /\ LandsInMonth(pt, dur.Y, dur.M, dur.W * 7 + dur.D)
     /\ LandsInMonth(pt2, -dur.Y, -dur.M, -(dur.W * 7 + dur.D))) => pt3 = pt

Iterations == 365

OneDay == Dur(0, 0, 0, 1, 0, 0, 0, 0)

\* Jan 1 2018 (the test's start), the eves of both transitions of 2018,
\* and a day of the summer.
MidnightDays == {DaysFromCivil(2018, 1, 1), DaysFromCivil(2018, 3, 10),
                 DaysFromCivil(2018, 7, 1), DaysFromCivil(2018, 11, 3)}

InitDST ==
    /\ pc = "loop"
    /\ \E day \in MidnightDays : pt = DateIn(Inst(day, 0), "America/New_York")
    /\ pt2 = pt
    /\ dur = OneDay
    /\ nops = 0
    /\ pt3 = NoPoint /\ td = 0 /\ dur2 = ZeroDuration
    /\ str = <<>>
    /\ TextIdle
    /\ MoreIdle

\* current = sut.Shift(current)
ShiftDay ==
    /\ pc = "loop"
    /\ nops < Iterations
    /\ pt2' = Shift(dur, pt2)
    /\ nops' = nops + 1
    /\ UNCHANGED <<moreVars, pc, textVars, dur, dur2, pt, pt3, td>>

NextDST == ShiftDay

SpecDST == InitDST /\ [][NextDST]_vars

OffsetAt(t) == Lookup(Zone(t.loc), Inst(t.day, t.tod)).off

\* C8: from a local midnight in a zone that observes daylight saving, after
\* any number of Shifts by {D: 1} the local hour is 0 and the local date
\* has advanced by exactly that number of days.
C8_MidnightStaysMidnight ==
    pc = "loop" =>
        /\ HourOf(pt2) = 0
        /\ Local(pt2) = Inst(Local(pt).day + nops, 0)

C8_Witness ==
    /\ pc = "loop" /\ nops = Iterations /\ HourOf(pt2) = 0
    /\ Civil(Local(pt).day) = [y |-> 2018, m |-> 1, d |-> 1]
    /\ Civil(Local(pt2).day) = [y |-> 2019, m |-> 1, d |-> 1]

(***************************************************************************)
(* The bridge: ToTimeDuration, then FromTimeDuration of its result.        *)
(***************************************************************************)
BridgeHours == {-100, -25, -1, 0, 1, 2, 25, 100}
BridgeMinutes == {-90, -59, -1, 0, 1, 30, 59, 60, 90}
BridgeSeconds == {[m |-> 0, e |-> 0], [m |-> 1, e |-> 0], [m |-> -1, e |-> 0],
                  [m |-> 15, e |-> 0], [m |-> 59, e |-> 0],
                  [m |-> -59, e |-> 0], [m |-> 60, e |-> 0],
                  [m |-> 75, e |-> 0], [m |-> 5, e |-> -1],
                  [m |-> -15, e |-> -1], [m |-> 333444, e |-> -4]}

InitBridge ==
    /\ pc = "start"
    /\ \E h \in BridgeHours, mi \in BridgeMinutes, sc \in BridgeSeconds :
          dur = Dur(0, 0, 0, 0, h, mi, sc.m, sc.e)
    /\ td = 0 /\ dur2 = ZeroDuration
    /\ pt = NoPoint /\ pt2 = NoPoint /\ pt3 = NoPoint
    /\ nops = 0
    /\ str = <<>>
    /\ TextIdle
    /\ MoreIdle

\* e := d.ToTimeDuration()
DoToTimeDuration ==
    /\ pc = "start"
    /\ td' = ToTimeDuration(dur)
    /\ pc' = "elapsed"
    /\ UNCHANGED <<moreVars, textVars, dur, dur2, nops, pt, pt2, pt3>>

\* d2 := FromTimeDuration(e)
DoFromTimeDuration ==
    /\ pc = "elapsed"
    /\ dur2' = FromTimeDuration(td)
    /\ pc' = "bridged"
    /\ UNCHANGED <<moreVars, textVars, dur, nops, pt, pt2, pt3, td>>

NextBridge == DoToTimeDuration \/ DoFromTimeDuration

SpecBridge == InitBridge /\ [][NextBridge]_vars

TimeOnly(d) == d.Y = 0 /\ d.M = 0 /\ d.W = 0 /\ d.D = 0

\* C10 as claimed: FromTimeDuration(ToTimeDuration(d)) is Equal to d for
\* every d whose Y, M, W and D are zero, TH, TM and TS arbitrary.
C10_BridgeRoundTrip ==
    (pc = "bridged" /\ TimeOnly(dur)) => Equal(dur2, dur)

\* TH, TM and TS are what FromTimeDuration yields: no two of opposite
\* sign, minutes and seconds below 60 in magnitude, whole seconds, the
\* total within the range of time.Duration.
Normalised(d) ==
    /\ ~(IsNegative(d) /\ AnyPositive(d))
    /\ d.TM > -60 /\ d.TM < 60
    /\ d.TS.e >= 0 /\ d.TS.m * Pow(10, d.TS.e) < 60
    /\ d.TH * Hour + d.TM * Minute + SecondsToTicks(d.TS)
           = WrapDuration(d.TH * Hour + d.TM * Minute + SecondsToTicks(d.TS))

\* C10 as amended: FromTimeDuration(ToTimeDuration(d)) is Equal to d for
\* every d whose Y, M, W and D are zero and whose TH, TM and TS have no
\* two values of opposite sign, |TM| < 60, |TS| < 60, TS a whole number
\* of seconds and TH hours + TM minutes + TS seconds within the range of
\* time.Duration.
C10_BridgeRoundTripNormalised ==
    (pc = "bridged" /\ TimeOnly(dur) /\ Normalised(dur)) => Equal(dur2, dur)

C10_Witness ==
    /\ pc = "bridged" /\ dur.TH = -25 /\ dur.TM = -59 /\ dur.TS.m = 59
    /\ dur.TS.neg /\ Equal(dur2, dur)

(***************************************************************************)
(* The bridge the other way: FromTimeDuration, then ToTimeDuration of its  *)
(* result.                                                                 *)
(***************************************************************************)
\* Whole parts of the elapsed values, in ticks, and their remainders: every
\* count of ticks up to a second and a half.
ElapsedWholes == {0, Minute, Hour, 90 * Minute, 25 * Hour + 59 * Minute}
ElapsedRemainders == 0 .. (Second + Second \div 2)

InitElapsed ==
    /\ pc = "start"
    /\ \E w \in ElapsedWholes, r \in ElapsedRemainders :
          td \in {w + r, -(w + r)}
    /\ td2 = 0 /\ dur3 = ZeroDuration
    /\ js = <<>> /\ err = "none" /\ cmp = NoAnswer /\ factor = 0
    /\ dur = ZeroDuration /\ dur2 = ZeroDuration
    /\ pt = NoPoint /\ pt2 = NoPoint /\ pt3 = NoPoint
    /\ nops = 0
    /\ str = <<>>
    /\ TextIdle

\* d := FromTimeDuration(e)
DoSplitElapsed ==
    /\ pc = "start"
    /\ dur3' = FromTimeDuration(td)
    /\ pc' = "split"
    /\ UNCHANGED <<textVars, timeVars, dur, nops, td2, js, err, cmp, factor>>

\* e2 := d.ToTimeDuration()
DoJoinElapsed ==
    /\ pc = "split"
    /\ td2' = ToTimeDuration(dur3)
    /\ pc' = "joined"
    /\ UNCHANGED <<textVars, timeVars, dur, nops, dur3, js, err, cmp, factor>>

NextElapsed == DoSplitElapsed \/ DoJoinElapsed

SpecElapsed == InitElapsed /\ [][NextElapsed]_vars

\* C11: for every elapsed value e, positive, zero or negative, with any
\* sub-second remainder, ToTimeDuration(FromTimeDuration(e)) = e.
C11_ElapsedRoundTrip ==
    pc = "joined" => td2 = td

\* The exact value of a seconds field, in ticks.
ExactTicks(f) ==
    (IF f.neg THEN -1 ELSE 1) *
    (IF f.e + TickDigits >= 0 THEN f.m * Pow(10, f.e + TickDigits)
     ELSE f.m \div Pow(10, -(f.e + TickDigits)))

\* C17 as claimed: FromTimeDuration(e) sets Y = M = W = D = 0, hours =
\* floor(e / 1h), minutes = floor of the remainder / 1min, TS = the
\* remaining seconds, for every e, negative values that are not a whole
\* number of hours included.
C17_FloorDecomposition ==
    pc = "split" =>
        /\ TimeOnly(dur3)
        /\ dur3.TH = td \div Hour
        /\ dur3.TM = (td % Hour) \div Minute
        /\ ExactTicks(dur3.TS) = (td % Hour) % Minute

\* C17 as amended: FromTimeDuration(e) sets Y = M = W = D = 0 and
\* decomposes e with quotients truncated towards zero: TH hours + TM
\* minutes + TS seconds is e, |TM| < 60, |TS| < 60, and no field has the
\* sign opposite to e's.
C17_TruncatedDecomposition ==
    pc = "split" =>
        /\ TimeOnly(dur3)
        /\ dur3.TH * Hour + dur3.TM * Minute + ExactTicks(dur3.TS) = td
        /\ dur3.TM > -60 /\ dur3.TM < 60
        /\ ExactTicks(dur3.TS) > -Minute /\ ExactTicks(dur3.TS) < Minute
        /\ td >= 0 => (dur3.TH >= 0 /\ dur3.TM >= 0 /\ ~dur3.TS.neg)
        /\ td <= 0 => (dur3.TH <= 0 /\ dur3.TM <= 0
                       /\ (dur3.TS.neg \/ FIsZero(dur3.TS)))

C17_Witness ==
    /\ pc = "split" /\ td = -(90 * Minute) - Second \div 2
    /\ dur3.TH = -1 /\ dur3.TM = -30 /\ dur3.TS.neg

(***************************************************************************)
(* One call of Add, Subtract or Multiply on two operands and an int.       *)
(***************************************************************************)
InitFields ==
    /\ pc = "start"
    /\ dur \in Operands
    /\ dur2 \in Operands
    /\ factor \in Factors
    /\ dur3 = ZeroDuration
    /\ td = 0 /\ td2 = 0
    /\ js = <<>> /\ err = "none" /\ cmp = NoAnswer
    /\ pt = NoPoint /\ pt2 = NoPoint /\ pt3 = NoPoint
    /\ nops = 0
    /\ str = <<>>
    /\ TextIdle

\* The receiver and the argument are passed by value: the call leaves
\* them as they are.
FieldsFrame ==
    UNCHANGED <<textVars, pt, pt2, pt3, td, td2, dur, dur2, nops, js, err,
                cmp, factor>>

\* sum := a.Add(b)
CallAdd ==
    /\ pc = "start"
    /\ dur3' = Add(dur, dur2)
    /\ pc' = "added"
    /\ FieldsFrame

\* diff := a.Subtract(b)
CallSubtract ==
    /\ pc = "start"
    /\ dur3' = Subtract(dur, dur2)
    /\ pc' = "subtracted"
    /\ FieldsFrame

\* prod := a.Multiply(n)
CallMultiply ==
    /\ pc = "start"
    /\ dur3' = Multiply(dur, factor)
    /\ pc' = "multiplied"
    /\ FieldsFrame

NextFields == CallAdd \/ CallSubtract \/ CallMultiply

SpecFields == InitFields /\ [][NextFields]_vars

IntFields == {"Y", "M", "W", "D", "TH", "TM"}

\* r is x in the host int: x itself when it fits, congruent to it anyway.
IsInt(r, x) ==
    /\ r >= MinInt /\ r <= MaxInt
    /\ (r - x) % Pow(2, IntBits) = 0

\* The seconds r are exactly x + sy * y (sy = 1 or -1), and exactly x * n.
SecondsSum(r, x, y, sy) ==
    LET e == FMin(r.e, FMin(x.e, y.e))
    IN  FSigned(r) * Pow(10, r.e - e) =
           FSigned(x) * Pow(10, x.e - e) + sy * FSigned(y) * Pow(10, y.e - e)
SecondsProduct(r, x, n) ==
    LET e == FMin(r.e, x.e)
    IN  FSigned(r) * Pow(10, r.e - e) = FSigned(x) * Pow(10, x.e - e) * n

ComponentWise ==
    /\ pc = "added" =>
          /\ \A f \in IntFields : IsInt(dur3[f], dur[f] + dur2[f])
          /\ SecondsSum(dur3.TS, dur.TS, dur2.TS, 1)
    /\ pc = "subtracted" =>
          /\ \A f \in IntFields : IsInt(dur3[f], dur[f] - dur2[f])
          /\ SecondsSum(dur3.TS, dur.TS, dur2.TS, -1)
    /\ pc = "multiplied" =>
          /\ \A f \in IntFields : IsInt(dur3[f], dur[f] * factor)
          /\ SecondsProduct(dur3.TS, dur.TS, factor)

\* C12: every field f of Add(a, b) is a.f + b.f, of Subtract(a, b) is
\* a.f - b.f and of Multiply(a, n) is a.f * n, nothing is carried to or
\* borrowed from a neighbouring field, and a and b are left as they were.
C12_FieldByField ==
    []ComponentWise /\ [][dur' = dur /\ dur2' = dur2]_vars

C12_Witness ==
    /\ pc = "added" /\ dur.TM = 45 /\ dur2.TM = 15 /\ dur3.TM = 60
    /\ dur3.TH = 5 /\ dur.D = 0 /\ dur2.D = 0

(***************************************************************************)
(* encoding/json, as far as MarshalJSON and UnmarshalJSON use it: a JSON   *)
(* text is a sequence of characters.                                       *)
(***************************************************************************)
Quote == "\""
Backslash == "\\"

\* json.Marshal of a string: quoted, with '"' and '\' escaped and '&', '<'
\* and '>' written as \u00XX (HTML escaping is on by default).
RECURSIVE JSONEscape(_)
JSONEscape(s) ==
    IF s = <<>> THEN <<>>
    ELSE (CASE Head(s) = Quote -> <<Backslash, Quote>>
            [] Head(s) = Backslash -> <<Backslash, Backslash>>
            [] Head(s) = "&" -> <<Backslash, "u", "0", "0", "2", "6">>
            [] Head(s) = "<" -> <<Backslash, "u", "0", "0", "3", "c">>
            [] Head(s) = ">" -> <<Backslash, "u", "0", "0", "3", "e">>
            [] OTHER -> <<Head(s)>>)
         \o JSONEscape(Tail(s))

JSONMarshalString(s) == <<Quote>> \o JSONEscape(s) \o <<Quote>>

\* The characters \u00XX stands for, for the code points of this model.
Unicode00 ==
    [x \in {<<"2", "6">>, <<"3", "c">>, <<"3", "e">>, <<"2", "b">>} |->
        CASE x = <<"2", "6">> -> "&"
          [] x = <<"3", "c">> -> "<"
          [] x = <<"3", "e">> -> ">"
          [] x = <<"2", "b">> -> "+"]

\* The scanner on a string literal whose opening quote is before i:
\* [next |-> the position after the closing quote (0: syntax error),
\*  s |-> the characters denoted].
RECURSIVE ScanString(_, _, _)
ScanString(b, i, acc) ==
    LET c == CharAt(b, i)
    IN  IF c = "" THEN [next |-> 0, s |-> <<>>]
        ELSE IF c = Quote THEN [next |-> i + 1, s |-> acc]
        ELSE IF c # Backslash THEN ScanString(b, i + 1, Append(acc, c))
        ELSE IF CharAt(b, i + 1) \in {Quote, Backslash, "/"}
        THEN ScanString(b, i + 2, Append(acc, CharAt(b, i + 1)))
        ELSE IF /\ CharAt(b, i + 1) = "u"
                /\ CharAt(b, i + 2) = "0" /\ CharAt(b, i + 3) = "0"
                /\ <<CharAt(b, i + 4), CharAt(b, i + 5)>> \in DOMAIN Unicode00
        THEN ScanString(b, i + 6,
                 Append(acc, Unicode00[<<CharAt(b, i + 4), CharAt(b, i + 5)>>]))
        ELSE [next |-> 0, s |-> <<>>]

IsWord(b, i, w) == SubSeq(b, i, i + Len(w) - 1) = w

\* The scanner on a value that starts at i: the position after it, 0 on a
\* syntax error.  Numbers are runs of digits, objects and arrays have at
\* most one member, there is no white space.
RECURSIVE ScanValue(_, _)
ScanValue(b, i) ==
    LET c == CharAt(b, i)
    IN  CASE c = Quote -> ScanString(b, i + 1, <<>>).next
          [] IsDigit(c) -> DigitsEnd(b, i)
          [] c = "n" -> IF i + 3 <= Len(b) /\ IsWord(b, i, <<"n", "u", "l", "l">>)
                        THEN i + 4 ELSE 0
          [] c = "t" -> IF i + 3 <= Len(b) /\ IsWord(b, i, <<"t", "r", "u", "e">>)
                        THEN i + 4 ELSE 0
          [] c = "f" -> IF i + 4 <= Len(b)
                           /\ IsWord(b, i, <<"f", "a", "l", "s", "e">>)
                        THEN i + 5 ELSE 0
          [] c = "{" ->
                IF CharAt(b, i + 1) = "}" THEN i + 2
                ELSE IF CharAt(b, i + 1) # Quote THEN 0
                ELSE LET k == ScanString(b, i + 2, <<>>).next
                     IN  IF k = 0 \/ CharAt(b, k) # ":" THEN 0
                         ELSE LET v == ScanValue(b, k + 1)
                              IN  IF v # 0 /\ CharAt(b, v) = "}"
                                  THEN v + 1 ELSE 0
          [] c = "[" ->
                IF CharAt(b, i + 1) = "]" THEN i + 2
                ELSE LET v == ScanValue(b, i + 1)
                     IN  IF v # 0 /\ CharAt(b, v) = "]" THEN v + 1 ELSE 0
          [] OTHER -> 0

\* json.Unmarshal(b, &s) for a string s that is "" before the call: a
\* syntax error for a text that is not one JSON value, the string for a
\* string literal, no error and s untouched for null, a type error for
\* every other value.
JSONUnmarshalString(b) ==
    IF ScanValue(b, 1) # Len(b) + 1
    THEN [err |-> "json syntax", s |-> <<>>]
    ELSE IF b[1] = Quote
    THEN [err |-> "none", s |-> ScanString(b, 2, <<>>).s]
    ELSE IF b[1] = "n"
    THEN [err |-> "none", s |-> <<>>]
    ELSE [err |-> "json type", s |-> <<>>]

\* Duration.MarshalJSON
MarshalJSON(d) == JSONMarshalString(String(d))

\* UnmarshalJSON that stores what the parser returned before it looks at
\* the error.
UnmarshalJSONStoresFirst(d0, b) ==
    LET u == JSONUnmarshalString(b)
    IN  IF u.err # "none"
        THEN [d |-> d0, err |-> u.err, parsed |-> NoResult]
        ELSE LET tmp == ParseISO8601(u.s)
             IN  [d |-> tmp.d, err |-> tmp.err, parsed |-> tmp]

\* Duration.UnmarshalJSON on the target *d = d0: the new value of the
\* target, the error, and what ParseISO8601 returned if it was called.
UnmarshalJSON(d0, b) ==
    LET u == JSONUnmarshalString(b)
    IN  IF u.err # "none"
        THEN [d |-> d0, err |-> u.err, parsed |-> NoResult]
        ELSE LET tmp == ParseISO8601(u.s)
             IN  IF tmp.err # "none"
                 THEN [d |-> d0, err |-> tmp.err, parsed |-> tmp]
                 ELSE [d |-> tmp.d, err |-> "none", parsed |-> tmp]

(***************************************************************************)
(* MarshalJSON of a value, UnmarshalJSON of a text into a target.          *)
(***************************************************************************)

\* The texts of the JSON tests, one of each other kind of JSON value, and
\* texts that are not JSON.
JSONTexts ==
    {JSONMarshalString(t) :
        t \in {<<"P", "1", "Y", "2", "M", "3", "W", "4", "D", "T", "5", "H",
                 "6", "M", "7", "S">>,
               <<"P", "1", "D">>, <<"-", "P", "T", "1", ".", "5", "S">>,
               <<"P", "3", "W">> \o Itoa(MaxInt + 1) \o <<"D">>,
               <<"P", "T", "1", "e", "&", "#", "4", "3", ";", "0", "6", "S">>,
               <<"P", "Z", "Y">>, <<"n", "u", "l", "l">>, <<>>}}
    \cup {<<"{", Quote, "f", "o", "o", Quote, ":", Quote, "b", "a", "r",
            Quote, "}">>,
          <<"{", "}">>, <<"[", "]">>, <<"[", Quote, "P", "1", "D", Quote, "]">>,
          <<"1", "2">>, <<"t", "r", "u", "e">>, <<"f", "a", "l", "s", "e">>,
          <<"n", "u", "l", "l">>,
          <<Quote, "P", Backslash, "/", "1", "D", Quote>>,
          <<Quote, "P", "1", "D">>, <<"P", "1", "D">>, <<>>,
          <<Quote, "P", "1", "D", Quote, "x">>,
          <<Quote, "P", Backslash, "x", "D", Quote>>,
          <<"{", Quote, "f", "o", "o", Quote, ":">>}

JSONTargets == {ZeroDuration, Dur(0, 0, 0, 5, 0, 0, 0, 0),
                Dur(0, 0, 0, 0, 0, 90, -15, -1)}

\* Values to encode, all of whole seconds: of one sign, of both signs (as
\* Subtract({D:1}, {TH:1}) yields), with the extreme ints.
JSONSources ==
    {ZeroDuration,
     Dur(1, 2, 3, 4, 5, 6, 7, 0),
     Dur(0, 0, 0, 1, 0, 0, 0, 0),
     Negate(Dur(1, 2, 3, 4, 5, 6, 7, 0)),
     Dur(0, 0, 0, 0, 0, 90, 75, 0),
     Dur(0, 0, 0, 0, 0, 0, 1, 6),
     Dur(0, 0, MaxInt, 0, 0, 0, 0, 0),
     Subtract(Dur(0, 0, 0, 1, 0, 0, 0, 0), Dur(0, 0, 0, 0, 1, 0, 0, 0)),
     Dur(0, 0, 0, 0, 1, -30, 0, 0),
     Dur(0, 0, 0, MinInt, 0, 0, 0, 0)}

InitJSON ==
    /\ dur \in JSONTargets
    /\ dur2 = dur
    /\ \/ pc = "encode" /\ dur3 \in JSONSources /\ js = <<>>
       \/ pc = "decode" /\ dur3 = ZeroDuration /\ js \in JSONTexts
    /\ err = "none" /\ res = NoResult /\ nops = 0
    /\ from = <<>> /\ built = Free /\ res2 = NoResult /\ str = <<>>
    /\ pt = NoPoint /\ pt2 = NoPoint /\ pt3 = NoPoint
    /\ td = 0 /\ td2 = 0 /\ cmp = NoAnswer /\ factor = 0

\* b, _ := json.Marshal(d)
DoMarshal ==
    /\ pc = "encode"
    /\ js' = MarshalJSON(dur3)
    /\ nops' = 1
    /\ pc' = "decode"
    /\ UNCHANGED <<from, built, res, str, res2, dur, dur2, dur3, pt, pt2,
                   pt3, td, td2, err, cmp, factor>>

\* err := target.UnmarshalJSON(b)
DoUnmarshal ==
    /\ pc = "decode"
    /\ LET r == UnmarshalJSON(dur, js)
       IN  dur' = r.d /\ err' = r.err /\ res' = r.parsed
    /\ pc' = "decoded"
    /\ UNCHANGED <<from, built, str, res2, dur2, dur3, nops, pt, pt2, pt3,
                   td, td2, js, cmp, factor>>

NextJSON == DoMarshal \/ DoUnmarshal

SpecJSON == InitJSON /\ [][NextJSON]_vars

\* b is one JSON value and that value is a string; the string it denotes.
IsJSONString(b) == b # <<>> /\ b[1] = Quote /\ ScanValue(b, 1) = Len(b) + 1
JSONText(b) == ScanString(b, 2, <<>>).s
IsJSONNull(b) == b = <<"n", "u", "l", "l">>

\* What C13 says of a call that got a string, and of MarshalJSON.
StringCases ==
    /\ (pc = "decoded" /\ IsJSONString(js)
        /\ ParseISO8601(JSONText(js)).err # "none") =>
          /\ err = ParseISO8601(JSONText(js)).err
          /\ dur = dur2
    /\ (pc = "decoded" /\ err # "none") => dur = dur2
    /\ (pc = "decoded" /\ err = "none") =>
          /\ IsJSONString(js)
          /\ dur = ParseISO8601(JSONText(js)).d
    /\ (pc = "decode" /\ nops = 1) =>
          /\ IsJSONString(js)
          /\ JSONText(js) = String(dur3)

\* C13 as claimed: UnmarshalJSON fails without calling the parser when the
\* JSON value is not a string, fails with the parser's error when the
\* string is not a duration, leaves the target as it was in both cases and
\* replaces it by the parsed value only on success; MarshalJSON yields the
\* JSON string of String().
C13_JSONFailures ==
    /\ (pc = "decoded" /\ ~IsJSONString(js)) =>
          /\ err \in {"json syntax", "json type"}
          /\ res = NoResult
          /\ dur = dur2
    /\ StringCases

\* C13 as amended: as claimed for every JSON value but null; for null the
\* parser is called on the empty string and UnmarshalJSON fails with its
\* error, the target left as it was.
C13_JSONFailuresButNull ==
    /\ (pc = "decoded" /\ ~IsJSONString(js) /\ ~IsJSONNull(js)) =>
          /\ err \in {"json syntax", "json type"}
          /\ res = NoResult
          /\ dur = dur2
    /\ (pc = "decoded" /\ IsJSONNull(js)) =>
          /\ err = ParseISO8601(<<>>).err /\ err # "none"
          /\ res = ParseISO8601(<<>>)
          /\ dur = dur2
    /\ StringCases

C13_Witness ==
    /\ pc = "decoded" /\ IsJSONString(js)
    /\ JSONText(js) = <<"P", "3", "W">> \o Itoa(MaxInt + 1) \o <<"D">>
    /\ err = "range" /\ res.d.W = 3 /\ dur = dur2 /\ dur.D = 5

(***************************************************************************)
(* The format of String(), over the values SpecArith reaches.              *)
(***************************************************************************)
\* The magnitude of n in decimal; a non-zero field with its unit letter.
Magnitude(n) == NatDigits(IF n < 0 THEN -n ELSE n)
MagnitudePart(n, unit) == IF n # 0 THEN Magnitude(n) \o <<unit>> ELSE <<>>

\* The magnitude of the seconds in plain decimal notation.
SecondsMagnitude(f) ==
    IF f.e >= 0 THEN NatDigits(f.m) \o Zeros(f.e)
    ELSE FmtF(NatDigits(f.m), Len(NatDigits(f.m)) + f.e)

Signless(d) ==
    <<"P">>
    \o MagnitudePart(d.Y, "Y") \o MagnitudePart(d.M, "M")
    \o MagnitudePart(d.W, "W") \o MagnitudePart(d.D, "D")
    \o (IF d.TH # 0 \/ d.TM # 0 \/ ~FIsZero(d.TS) THEN <<"T">> ELSE <<>>)
    \o MagnitudePart(d.TH, "H") \o MagnitudePart(d.TM, "M")
    \o (IF ~FIsZero(d.TS) THEN SecondsMagnitude(d.TS) \o <<"S">> ELSE <<>>)

SomeFieldNegative(d) ==
    \/ \E f \in IntFields : d[f] < 0
    \/ FIsNeg(d.TS)

\* C14: for every non-zero d, String(d) is '-' iff some field is negative,
\* then 'P', the non-zero Y, M, W, D as magnitude and unit letter, 'T' iff
\* one of TH, TM, TS is non-zero, the non-zero TH, TM, TS as magnitude and
\* unit letter; the only '-' is the leading one, for any field value in
\* the range of the host int.
C14_StringFormat ==
    (pc = "shown" /\ ~IsZero(dur)) =>
        /\ str = (IF SomeFieldNegative(dur) THEN <<"-">> ELSE <<>>)
                     \o Signless(dur)
        /\ \A i \in 2..Len(str) : str[i] # "-"

(***************************************************************************)
(* What Shift does, over the runs of SpecShift.                            *)
(***************************************************************************)
\* The UTC point t with its calendar date advanced by years, months and
\* days: the day count starts at the first of the month reached and the
\* clock is kept.
CalendarAdvance(t, years, months, days) ==
    LET c     == Civil(t.day)
        m0    == c.m - 1 + months
        first == DaysFromCivil(c.y + years + m0 \div 12, (m0 % 12) + 1, 1)
    IN  [t EXCEPT !.day = first + (c.d - 1) + days]

\* The UTC point t with a flat elapsed time added.
ElapsedAdvance(t, ticks) ==
    LET total == t.tod + ticks
    IN  [t EXCEPT !.day = t.day + total \div DayTicks,
                  !.tod = total % DayTicks]

\* d with its weeks folded into its days.
WeeksAsDays(d) == [d EXCEPT !.W = 0, !.D = Wrap(7 * d.W + d.D)]

CompareOperands ==
    {ZeroDuration,
     Dur(0, 0, 0, 1, 2, 30, 455, -1),
     Dur(0, 0, 0, 2, 2, 30, 455, -1),
     Dur(0, 0, 0, 0, 1, 30, 0, 0),
     Dur(0, 0, 0, 0, 2, 15, 0, 0),
     Dur(0, 0, 0, 0, 0, 0, 15, -1),
     Dur(0, 0, 0, 0, 0, 0, 25, -1),
     Dur(0, 0, 0, 0, 1, 0, 0, 0),
     Dur(0, 0, 0, 0, 0, 90, 0, 0),
     Dur(0, 0, 0, 0, 0, 1, -75, 0),
     Dur(1, 0, 0, 0, 0, 0, 0, 0),
     Dur(0, 13, 0, 0, 0, 0, 0, 0),
     Dur(0, 0, 1, -7, 0, 0, 0, 0),
     [ZeroDuration EXCEPT !.TS = NaN],
     [ZeroDuration EXCEPT !.D = 1, !.TS = NaN]}

InitCompare ==
    /\ pc = "start"
    /\ dur \in CompareOperands
    /\ dur2 \in CompareOperands
    /\ cmp = NoAnswer
    /\ dur3 = ZeroDuration /\ td = 0 /\ td2 = 0
    /\ js = <<>> /\ err = "none" /\ factor = 0
    /\ pt = NoPoint /\ pt2 = NoPoint /\ pt3 = NoPoint
    /\ nops = 0
    /\ str = <<>>
    /\ TextIdle

CompareFrame ==
    UNCHANGED <<textVars, pt, pt2, pt3, td, td2, dur, dur2, dur3, nops, js,
                err, factor>>

\* a.LessThan(b)
CallLessThan ==
    /\ pc = "start"
    /\ cmp' = [cmp EXCEPT !.lt = LessThan(dur, dur2)]
    /\ pc' = "lt"
    /\ CompareFrame

\* b.LessThan(a)
CallLessThanReversed ==
    /\ pc = "lt"
    /\ cmp' = [cmp EXCEPT !.ltRev = LessThan(dur2, dur)]
    /\ pc' = "ltRev"
    /\ CompareFrame

\* a.GreaterThan(b)
CallGreaterThan ==
    /\ pc = "ltRev"
    /\ cmp' = [cmp EXCEPT !.gt = GreaterThan(dur, dur2)]
    /\ pc' = "gt"
    /\ CompareFrame

\* a.Equal(b)
CallEqual ==
    /\ pc = "gt"
    /\ cmp' = [cmp EXCEPT !.eq = Equal(dur, dur2)]
    /\ pc' = "compared"
    /\ CompareFrame

NextCompare ==
    CallLessThan \/ CallLessThanReversed \/ CallGreaterThan \/ CallEqual

SpecCompare == InitCompare /\ [][NextCompare]_vars

\* The documented policy: the fields that count, in their order, and the
\* answer of the first that differs, of the seconds if none does.
HasDate(d) == d.Y # 0 \/ d.M # 0 \/ d.W # 0 \/ d.D # 0
PolicyOrder(a, b) ==
    (IF HasDate(a) \/ HasDate(b) THEN <<"Y", "M", "W", "D">> ELSE <<>>)
    \o <<"TH", "TM">>
PolicyLess(a, b) ==
    LET order == PolicyOrder(a, b)
        diffs == {i \in 1..Len(order) : a[order[i]] # b[order[i]]}
    IN  IF diffs # {}
        THEN LET i == CHOOSE i \in diffs : \A j \in diffs : i <= j
             IN  a[order[i]] < b[order[i]]
        ELSE FLess(a.TS, b.TS)

ExactlyOne(x, y, z) ==
    (x /\ ~y /\ ~z) \/ (~x /\ y /\ ~z) \/ (~x /\ ~y /\ z)

\* C16 as claimed: LessThan follows the documented policy,
\* GreaterThan(a, b) = LessThan(b, a), and for all a, b exactly one of
\* LessThan(a, b), LessThan(b, a), Equal(a, b) holds.
C16_ComparePolicy ==
    pc = "compared" =>
        /\ cmp.lt = PolicyLess(dur, dur2)
        /\ cmp.gt = cmp.ltRev
        /\ ExactlyOne(cmp.lt, cmp.ltRev, cmp.eq)

\* C16 as amended: LessThan follows the documented policy,
\* GreaterThan(a, b) = LessThan(b, a), and for all a, b whose TS is not
\* NaN exactly one of LessThan(a, b), LessThan(b, a), Equal(a, b) holds.
C16_ComparePolicyNoNaN ==
    pc = "compared" =>
        /\ cmp.lt = PolicyLess(dur, dur2)
        /\ cmp.gt = cmp.ltRev
        /\ (~FIsNaN(dur.TS) /\ ~FIsNaN(dur2.TS)) =>
              ExactlyOne(cmp.lt, cmp.ltRev, cmp.eq)

C16_Witness ==
    /\ pc = "compared" /\ dur.M = 13 /\ dur2.Y = 1
    /\ cmp.lt /\ ~cmp.ltRev /\ ~cmp.gt /\ ~cmp.eq

\* C19: for all a, b with Y = M = W = D = 0, LessThan(a, b) holds if and
\* only if ToTimeDuration(a) < ToTimeDuration(b).
C19_LessThanIsElapsedOrder ==
    (pc = "compared" /\ TimeOnly(dur) /\ TimeOnly(dur2)
     /\ ~FIsNaN(dur.TS) /\ ~FIsNaN(dur2.TS)) =>
        (cmp.lt <=> ToTimeDuration(dur) < ToTimeDuration(dur2))

(***************************************************************************)
(* ToTimeDuration of two values that differ in their date fields only.     *)
(***************************************************************************)
FrameHours == {-25, 0, 1}
FrameMinutes == {-1, 0, 90}
FrameSeconds == {[m |-> 0, e |-> 0], [m |-> 1, e |-> 0], [m |-> 59, e |-> 0],
                 [m |-> 15, e |-> -1], [m |-> -5, e |-> -1],
                 [m |-> 61, e |-> -2], [m |-> -105, e |-> -2],
                 [m |-> 455, e |-> -1], [m |-> 2701, e |-> -4]}
FrameDates == {<<0, 0, 0, 0>>, <<1, 2, 3, 4>>, <<0, 0, 0, 1>>,
               <<-1, 0, 0, 0>>, <<0, 14, -2, MaxInt>>}

InitFrame ==
    /\ pc = "start"
    /\ \E h \in FrameHours, mi \in FrameMinutes, sc \in FrameSeconds,
          x \in FrameDates, y \in FrameDates :
          /\ dur = Dur(x[1], x[2], x[3], x[4], h, mi, sc.m, sc.e)
          /\ dur2 = Dur(y[1], y[2], y[3], y[4], h, mi, sc.m, sc.e)
    /\ td = 0 /\ td2 = 0
    /\ dur3 = ZeroDuration
    /\ js = <<>> /\ err = "none" /\ cmp = NoAnswer /\ factor = 0
    /\ pt = NoPoint /\ pt2 = NoPoint /\ pt3 = NoPoint
    /\ nops = 0
    /\ str = <<>>
    /\ TextIdle

\* e := a.ToTimeDuration()
CallToTimeDuration ==
    /\ pc = "start"
    /\ td' = ToTimeDuration(dur)
    /\ pc' = "first"
    /\ UNCHANGED <<textVars, pt, pt2, pt3, td2, dur, dur2, dur3, nops, js,
                   err, cmp, factor>>

\* e2 := b.ToTimeDuration()
CallToTimeDurationOther ==
    /\ pc = "first"
    /\ td2' = ToTimeDuration(dur2)
    /\ pc' = "both"
    /\ UNCHANGED <<textVars, pt, pt2, pt3, td, dur, dur2, dur3, nops, js,
                   err, cmp, factor>>

NextFrame == CallToTimeDuration \/ CallToTimeDurationOther

SpecFrame == InitFrame /\ [][NextFrame]_vars

\* s ticks are less than two ticks away from the seconds f.
NearSeconds(s, f) ==
    LET j   == IF f.e + TickDigits < 0 THEN -(f.e + TickDigits) ELSE 0
        k   == IF f.e + TickDigits > 0 THEN f.e + TickDigits ELSE 0
        gap == s * Pow(10, j) - FSigned(f) * Pow(10, k)
    IN  gap < 2 * Pow(10, j) /\ -gap < 2 * Pow(10, j)

C20_JSONLossless ==
    (pc = "decoded" /\ nops = 1 /\ dur3.TS.e >= 0) =>
        (err = "none" /\ Equal(dur, dur3))

=============================================================================
